---- MODULE Spec2Model ----
(***************************************************************************)
(* Signal translation core of the vehicle interface firmware               *)
(* (src/src/can/canread.cpp): the rate/change gate (preTranslate), the     *)
(* value handlers, the three translateSignal variants, the message         *)
(* emitters for the JSON and protobuf output formats, and the passthrough  *)
(* path for raw CAN messages.                                              *)
(*                                                                         *)
(* A 64-bit CAN payload is a sequence of 8 bytes in memory order           *)
(* (data[1] is byte 0).  Decoded values are small integers, so that the    *)
(* float arithmetic of the code is exact.                                  *)
(***************************************************************************)
EXTENDS Integers, Sequences, FiniteSets, TLC

VARIABLES now, outputFormat, signals, messages, sink, everSent, everPassed,
          crashed, last

vars == <<now, outputFormat, signals, messages, sink, everSent, everPassed,
          crashed, last>>

(***************************************************************************)
(* Bounds of the model.                                                    *)
(***************************************************************************)
MaxTime == 3
NumFrames == 2
MaxMessageCount == 2

(***************************************************************************)
(* Configuration data (the signal and message tables are supplied          *)
(* externally; these are the instances the model is checked with).         *)
(***************************************************************************)
Interval == 2
NumSignals == 2
Signals == 1..NumSignals
\* The (bus address, message id) pairs seen on the buses: one more than the
\* definition table holds.
BusAndId(i) == <<((i - 1) % 2) + 1, ((i - 1) \div 2) + 1>>
Targets == {BusAndId(i) : i \in 1..(MaxMessageCount + 1)}
Handlers == {"passthrough", "boolean", "ignore", "state"}
Formats == {"JSON", "PROTO"}
Faults == {"none", "root", "print", "encode"}
UBOutcomes == {"drop", "garbage", "crash"}

Pow2(n) == 2 ^ n

ZeroData == [k \in 1..8 |-> 0]

\* The payloads the bus delivers: frame i has bytes 100*i, 16*i, 0, ..., 0.
Frame(i) == [k \in 1..8 |-> IF k = 1 THEN (100 * i) % 256
                            ELSE IF k = 2 THEN (16 * i) % 256 ELSE 0]
Frames == {Frame(i) : i \in 0..(NumFrames - 1)}
\* The payloads of the raw messages, which are only compared for equality.
Payloads == {Frame(0), Frame(1)}

\* Static decode parameters of the signals.
genericName(s) == IF s = 1 THEN "signal_1" ELSE "signal_2"
bitPosition(s) == IF s = 1 THEN 0 ELSE 4
bitSize(s) == 8
factor(s) == IF s = 1 THEN 1 ELSE 2
offset(s) == IF s = 1 THEN 0 ELSE 1
\* The state table of a signal: (name, value) pairs in declaration order.
states(s) == IF s = 1
             THEN <<[name |-> "low", value |-> 100],
                    [name |-> "high", value |-> 200],
                    [name |-> "high_dup", value |-> 200]>>
             ELSE <<[name |-> "mid", value |-> 13]>>

(***************************************************************************)
(* util/bitfield getBitField with the big-endian flag: bit 0 is the most   *)
(* significant bit of byte 0.                                              *)
(***************************************************************************)
BitAt(data, i) == (data[(i \div 8) + 1] \div Pow2(7 - (i % 8))) % 2

RECURSIVE BitsValue(_, _, _)
BitsValue(data, pos, n) ==
    IF n = 0 THEN 0
    ELSE 2 * BitsValue(data, pos, n - 1) + BitAt(data, pos + n - 1)

getBitField(data, startBit, numBits) == BitsValue(data, startBit, numBits)

(***************************************************************************)
(* util/timer shouldTick: the tick is due when the interval is 0 or has    *)
(* elapsed since the last fire; a due tick records the fire time.  A clock *)
(* of interval 0 is always due, whatever its last fire time, which is      *)
(* therefore not tracked.                                                  *)
(***************************************************************************)
shouldTick(clock, t) ==
    LET due == clock.interval = 0 \/ t - clock.lastTick >= clock.interval
    IN [tick |-> due,
        clock |-> IF due /\ clock.interval # 0
                  THEN [clock EXCEPT !.lastTick = t] ELSE clock]

(***************************************************************************)
(* decodeSignal, preTranslate, postTranslate.                              *)
(***************************************************************************)
decodeSignal(s, data) ==
    getBitField(data, bitPosition(s), bitSize(s)) * factor(s) + offset(s)

\* Variants of preTranslate with a slip in the gate, used to show that the
\* properties below depend on it: the first-value test is missing; received
\* is never marked; received is marked on every call.
preTranslate_noFirst(s, signal, data, send, t) ==
    LET value == getBitField(data, bitPosition(s), bitSize(s)) * factor(s)
                 + offset(s)
        st == shouldTick(signal.frequencyClock, t)
        ticked == [signal EXCEPT !.frequencyClock = st.clock]
    IN IF st.tick \/ (value # signal.lastValue /\ signal.forceSendChanged)
       THEN IF signal.sendSame \/ value # signal.lastValue
            THEN [value |-> value, send |-> send, tick |-> st.tick,
                  signal |-> [ticked EXCEPT !.received = TRUE]]
            ELSE [value |-> value, send |-> FALSE, tick |-> st.tick,
                  signal |-> ticked]
       ELSE [value |-> value, send |-> FALSE, tick |-> st.tick,
             signal |-> ticked]

preTranslate_noMark(s, signal, data, send, t) ==
    LET value == getBitField(data, bitPosition(s), bitSize(s)) * factor(s)
                 + offset(s)
        st == shouldTick(signal.frequencyClock, t)
        ticked == [signal EXCEPT !.frequencyClock = st.clock]
    IN IF st.tick \/ (value # signal.lastValue /\ signal.forceSendChanged)
       THEN IF ~signal.received \/ signal.sendSame
                  \/ value # signal.lastValue
            THEN [value |-> value, send |-> send, tick |-> st.tick,
                  signal |-> ticked]
            ELSE [value |-> value, send |-> FALSE, tick |-> st.tick,
                  signal |-> ticked]
       ELSE [value |-> value, send |-> FALSE, tick |-> st.tick,
             signal |-> ticked]

preTranslate_markAlways(s, signal, data, send, t) ==
    LET value == getBitField(data, bitPosition(s), bitSize(s)) * factor(s)
                 + offset(s)
        st == shouldTick(signal.frequencyClock, t)
        ticked == [signal EXCEPT !.frequencyClock = st.clock,
                                 !.received = TRUE]
    IN IF st.tick \/ (value # signal.lastValue /\ signal.forceSendChanged)
       THEN IF ~signal.received \/ signal.sendSame
                  \/ value # signal.lastValue
            THEN [value |-> value, send |-> send, tick |-> st.tick,
                  signal |-> ticked]
            ELSE [value |-> value, send |-> FALSE, tick |-> st.tick,
                  signal |-> ticked]
       ELSE [value |-> value, send |-> FALSE, tick |-> st.tick,
             signal |-> ticked]

\* Variant of preTranslate that lets a repeated value through whenever the
\* tick is due or a change is forced.
preTranslate_repeatPasses(s, signal, data, send, t) ==
    LET value == decodeSignal(s, data)
        st == shouldTick(signal.frequencyClock, t)
        ticked == [signal EXCEPT !.frequencyClock = st.clock]
    IN IF st.tick \/ (value # signal.lastValue /\ signal.forceSendChanged)
       THEN [value |-> value, send |-> send, tick |-> st.tick,
             signal |-> [ticked EXCEPT !.received = TRUE]]
       ELSE [value |-> value, send |-> FALSE, tick |-> st.tick,
             signal |-> ticked]

\* sendPtr: the send pointer is non-null (the test at line 153 is on the
\* pointer, not on the flag it points to).
preTranslate(s, signal, data, send, t) ==
    LET value == decodeSignal(s, data)
        st == shouldTick(signal.frequencyClock, t)
        ticked == [signal EXCEPT !.frequencyClock = st.clock]
        sendPtr == TRUE
    IN IF st.tick \/ (value # signal.lastValue /\ signal.forceSendChanged)
       THEN IF sendPtr /\ (~signal.received \/ signal.sendSame
                              \/ value # signal.lastValue)
            THEN [value |-> value, send |-> send, tick |-> st.tick,
                  signal |-> [ticked EXCEPT !.received = TRUE]]
            ELSE [value |-> value, send |-> FALSE, tick |-> st.tick,
                  signal |-> ticked]
       ELSE [value |-> value, send |-> FALSE, tick |-> st.tick,
             signal |-> ticked]

\* Variant of postTranslate that also rewrites the signal's configuration.
postTranslate_reconfigure(signal, value) ==
    [signal EXCEPT !.lastValue = value, !.sendSame = TRUE]

\* Variant of postTranslate that does not record the sample.
postTranslate_keep(signal, value) == signal

postTranslate(signal, value) == [signal EXCEPT !.lastValue = value]

(***************************************************************************)
(* Signal value handlers.  A handler yields its output and the send flag;  *)
(* the string handler's output may be null.                                *)
(***************************************************************************)
NullString == [null |-> TRUE, str |-> ""]
String(x) == [null |-> FALSE, str |-> x]

\* canutil lookupSignalState: linear search of the signal's state table for
\* the value, the first match wins; 0 is the null result.
RECURSIVE lookupFrom(_, _, _)
lookupFrom(table, value, i) ==
    IF i > Len(table) THEN 0
    ELSE IF table[i].value = value THEN i
    ELSE lookupFrom(table, value, i + 1)

lookupSignalState(value, s) == lookupFrom(states(s), value, 1)

passthroughHandler(s, value, send) == [output |-> value, send |-> send]

booleanHandler(s, value, send) ==
    [output |-> (IF value = 0 THEN FALSE ELSE TRUE), send |-> send]

\* Variant of ignoreHandler that leaves the send flag alone.
ignoreHandler_keepSend(s, value, send) == [output |-> value, send |-> send]

ignoreHandler(s, value, send) == [output |-> value, send |-> FALSE]

\* Variant of stateHandler that asks for a send whenever a state matches.
stateHandler_alwaysSend(s, value, send) ==
    LET signalState == lookupSignalState(value, s)
    IN IF signalState # 0
       THEN [output |-> String(states(s)[signalState].name), send |-> TRUE]
       ELSE [output |-> NullString, send |-> FALSE]

stateHandler(s, value, send) ==
    LET signalState == lookupSignalState(value, s)
    IN IF signalState # 0
       THEN [output |-> String(states(s)[signalState].name), send |-> send]
       ELSE [output |-> NullString, send |-> FALSE]

(***************************************************************************)
(* The VehicleMessage struct (openxc_VehicleMessage): every leaf and every *)
(* variant carries a presence flag; "message = {0}" clears all of them.    *)
(***************************************************************************)
ZeroNamed(v) == [has_name |-> FALSE, name |-> "", has_value |-> FALSE,
                 value |-> v]
ZeroRaw == [has_message_id |-> FALSE, message_id |-> 0, has_bus |-> FALSE,
            bus |-> 0, has_data |-> FALSE, data |-> ZeroData]
ZeroMessage ==
    [has_type |-> FALSE, type |-> "NONE",
     has_numerical_message |-> FALSE, numerical_message |-> ZeroNamed(0),
     has_boolean_message |-> FALSE, boolean_message |-> ZeroNamed(FALSE),
     has_string_message |-> FALSE, string_message |-> ZeroNamed(""),
     has_raw_message |-> FALSE, raw_message |-> ZeroRaw]

\* Variant of Named that leaves the value's presence flag clear.
Named_valueUnflagged(name, value) ==
    [has_name |-> TRUE, name |-> name, has_value |-> FALSE, value |-> value]

Named(name, value) == [has_name |-> TRUE, name |-> name, has_value |-> TRUE,
                       value |-> value]

NumericalMessage(name, value) ==
    [ZeroMessage EXCEPT !.has_type = TRUE, !.type = "NUM",
                        !.has_numerical_message = TRUE,
                        !.numerical_message = Named(name, value)]

BooleanMessage(name, value) ==
    [ZeroMessage EXCEPT !.has_type = TRUE, !.type = "BOOL",
                        !.has_boolean_message = TRUE,
                        !.boolean_message = Named(name, value)]

StringMessage(name, value) ==
    [ZeroMessage EXCEPT !.has_type = TRUE, !.type = "STRING",
                        !.has_string_message = TRUE,
                        !.string_message = Named(name, value)]

RawMessage(bus, id, data) ==
    [ZeroMessage EXCEPT !.has_type = TRUE, !.type = "RAW",
                        !.has_raw_message = TRUE,
                        !.raw_message = [has_message_id |-> TRUE,
                                         message_id |-> id,
                                         has_bus |-> TRUE, bus |-> bus,
                                         has_data |-> TRUE, data |-> data]]

(***************************************************************************)
(* Wire encodings.  The protobuf encoder writes exactly the fields whose   *)
(* presence flag is set; a field is (path, rendered value).  cJSON prints  *)
(* an object as {"key":value,...} without blanks.                          *)
(***************************************************************************)
BoolText(b) == IF b THEN "true" ELSE "false"
Quoted(x) == "\"" \o x \o "\""

HexDigit(d) == <<"0", "1", "2", "3", "4", "5", "6", "7",
                 "8", "9", "a", "b", "c", "d", "e", "f">>[d + 1]
Hex2(b) == HexDigit(b \div 16) \o HexDigit(b % 16)

RECURSIVE HexBytes(_, _)
HexBytes(data, i) ==
    IF i > Len(data) THEN "" ELSE Hex2(data[i]) \o HexBytes(data, i + 1)

PbField(present, path, text) ==
    IF present THEN <<[field |-> path, value |-> text]>> ELSE <<>>

PbNamed(present, prefix, sub, text) ==
    IF present
    THEN PbField(sub.has_name, prefix \o ".name", sub.name)
         \o PbField(sub.has_value, prefix \o ".value", text)
    ELSE <<>>

pb_encode_delimited(m) ==
    PbField(m.has_type, "type", m.type)
    \o PbNamed(m.has_numerical_message, "numerical_message",
               m.numerical_message, ToString(m.numerical_message.value))
    \o PbNamed(m.has_boolean_message, "boolean_message",
               m.boolean_message, BoolText(m.boolean_message.value))
    \o PbNamed(m.has_string_message, "string_message",
               m.string_message, m.string_message.value)
    \o (IF m.has_raw_message
        THEN PbField(m.raw_message.has_message_id, "raw_message.message_id",
                     ToString(m.raw_message.message_id))
             \o PbField(m.raw_message.has_bus, "raw_message.bus",
                        ToString(m.raw_message.bus))
             \o PbField(m.raw_message.has_data, "raw_message.data",
                        HexBytes(m.raw_message.data, 1))
        ELSE <<>>)

\* A cJSON item is its printed text; a cJSON object is a sequence of
\* (key, item) members, or null.
NullJson == [null |-> TRUE, members |-> <<>>]
cJSON_CreateObject(fault) ==
    IF fault = "root" THEN NullJson ELSE [null |-> FALSE, members |-> <<>>]
cJSON_AddItemToObject(root, key, item) ==
    [root EXCEPT !.members = Append(@, [key |-> key, item |-> item])]
cJSON_CreateNumber(n) == ToString(n)
cJSON_CreateBool(b) == BoolText(b)
cJSON_CreateString(x) == Quoted(x)

RECURSIVE PrintMembers(_, _)
PrintMembers(members, i) ==
    IF i > Len(members) THEN ""
    ELSE (IF i > 1 THEN "," ELSE "")
         \o Quoted(members[i].key) \o ":" \o members[i].item
         \o PrintMembers(members, i + 1)

cJSON_PrintUnformatted(root) == "{" \o PrintMembers(root.members, 1) \o "}"

(***************************************************************************)
(* Emission.  An emitter yields the messages it hands to the pipeline      *)
(* sink and whether the firmware crashed on the way.  fault is the         *)
(* failure the environment injects into this emission: "root" (the JSON    *)
(* object cannot be allocated), "print" (the JSON object cannot be         *)
(* converted to a string), "encode" (the protobuf encoder fails).  ub is   *)
(* the outcome the build produces when the code runs into undefined        *)
(* behaviour.                                                              *)
(***************************************************************************)
NoEmission == [out |-> <<>>, crash |-> FALSE]
Crash == [out |-> <<>>, crash |-> TRUE]
Handed(m) == [out |-> <<m>>, crash |-> FALSE]
Garbage == [encoding |-> "GARBAGE"]

\* Lines 30-34 read the string before line 36 tests it for null.
sendJSON(root, fault, ub) ==
    IF root.null THEN NoEmission
    ELSE IF fault = "print"
    THEN CASE ub = "crash" -> Crash
           [] ub = "garbage" -> Handed(Garbage)
           [] OTHER -> NoEmission
    ELSE Handed([encoding |-> "JSON",
                 text |-> cJSON_PrintUnformatted(root) \o "\r\n"])

sendProtobuf(message, fault) ==
    IF fault # "encode"
    THEN Handed([encoding |-> "PROTO",
                 fields |-> pb_encode_delimited(message)])
    ELSE NoEmission

\* event is a cJSON item or the null item "".
sendJsonMessage(name, value, event, fault, ub) ==
    LET root == cJSON_CreateObject(fault)
    IN IF ~root.null
       THEN LET r1 == cJSON_AddItemToObject(root, "name",
                                            cJSON_CreateString(name))
                r2 == cJSON_AddItemToObject(r1, "value", value)
                r3 == IF event # "" THEN cJSON_AddItemToObject(r2, "event",
                                                               event)
                      ELSE r2
            IN sendJSON(r3, fault, ub)
       ELSE NoEmission

\* sendMessage(const char* name, cJSON* value, cJSON* event, Pipeline*):
\* only the JSON format is handled.
sendMessageEvent(name, value, event, format, fault, ub) ==
    IF format = "JSON" THEN sendJsonMessage(name, value, event, fault, ub)
    ELSE NoEmission

\* sendMessage(openxc_VehicleMessage*, Pipeline*).  The default branch of
\* the switch leaves name and value uninitialized, and sendJsonMessage is
\* called with them all the same: undefined behaviour.
sendMessage(message, format, fault, ub) ==
    IF format = "PROTO" THEN sendProtobuf(message, fault)
    ELSE CASE message.type = "NUM" ->
                sendJsonMessage(message.numerical_message.name,
                    cJSON_CreateNumber(message.numerical_message.value),
                    "", fault, ub)
           [] message.type = "BOOL" ->
                sendJsonMessage(message.boolean_message.name,
                    cJSON_CreateBool(message.boolean_message.value),
                    "", fault, ub)
           [] message.type = "STRING" ->
                sendJsonMessage(message.string_message.name,
                    cJSON_CreateString(message.string_message.value),
                    "", fault, ub)
           [] OTHER -> CASE ub = "crash" -> Crash
                         [] ub = "garbage" -> Handed(Garbage)
                         [] OTHER -> NoEmission

sendNumericalMessage(name, value, format, fault, ub) ==
    sendMessage(NumericalMessage(name, value), format, fault, ub)

sendBooleanMessage(name, value, format, fault, ub) ==
    sendMessage(BooleanMessage(name, value), format, fault, ub)

sendStringMessage(name, value, format, fault, ub) ==
    sendMessage(StringMessage(name, value), format, fault, ub)

sendEventedFloatMessage(name, value, event, format, fault, ub) ==
    sendMessageEvent(name, cJSON_CreateString(value),
                     cJSON_CreateNumber(event), format, fault, ub)

sendEventedBooleanMessage(name, value, event, format, fault, ub) ==
    sendMessageEvent(name, cJSON_CreateString(value), cJSON_CreateBool(event),
                     format, fault, ub)

sendEventedStringMessage(name, value, event, format, fault, ub) ==
    sendMessageEvent(name, cJSON_CreateString(value),
                     cJSON_CreateString(event), format, fault, ub)

\* The object is not tested for null before the members are added.
passthroughMessageJson(bus, id, data, fault, ub) ==
    LET root == cJSON_CreateObject(fault)
    IN IF root.null
       THEN (IF ub = "crash" THEN Crash ELSE sendJSON(root, fault, ub))
       ELSE LET r1 == cJSON_AddItemToObject(root, "bus",
                                            cJSON_CreateNumber(bus))
                r2 == cJSON_AddItemToObject(r1, "id", cJSON_CreateNumber(id))
                encodedData == "0x" \o HexBytes(data, 1)
                r3 == cJSON_AddItemToObject(r2, "data",
                                            cJSON_CreateString(encodedData))
            IN sendJSON(r3, fault, ub)

passthroughMessageProtobuf(bus, id, data, fault) ==
    sendProtobuf(RawMessage(bus, id, data), fault)

(***************************************************************************)
(* translateSignal: the float-handler, string-handler and bool-handler     *)
(* variants.  Each yields the gate's result, the handler's send flag, the  *)
(* emission and the signal as the call leaves it (a crash inside the       *)
(* emission happens before postTranslate).                                 *)
(***************************************************************************)
FloatHandler(handler, s, value, send) ==
    IF handler = "ignore" THEN ignoreHandler(s, value, send)
    ELSE passthroughHandler(s, value, send)

Translated(pre, h, attempted, em) ==
    [pre |-> pre, send |-> h.send, output |-> h.output,
     attempted |-> attempted, em |-> em,
     signal |-> IF em.crash THEN pre.signal
                ELSE postTranslate(pre.signal, pre.value)]

translateSignalFloat(s, signal, data, handler, format, fault, ub, t) ==
    LET pre == preTranslate(s, signal, data, TRUE, t)
        h == FloatHandler(handler, s, pre.value, pre.send)
        em == IF h.send
              THEN sendNumericalMessage(genericName(s), h.output, format,
                                        fault, ub)
              ELSE NoEmission
    IN Translated(pre, h, h.send, em)

translateSignalString(s, signal, data, format, fault, ub, t) ==
    LET pre == preTranslate(s, signal, data, TRUE, t)
        h == stateHandler(s, pre.value, pre.send)
        em == IF ~h.output.null /\ h.send
              THEN sendStringMessage(genericName(s), h.output.str, format,
                                     fault, ub)
              ELSE NoEmission
    IN Translated(pre, h, ~h.output.null /\ h.send, em)

translateSignalBool(s, signal, data, format, fault, ub, t) ==
    LET pre == preTranslate(s, signal, data, TRUE, t)
        h == booleanHandler(s, pre.value, pre.send)
        em == IF h.send
              THEN sendBooleanMessage(genericName(s), h.output, format,
                                      fault, ub)
              ELSE NoEmission
    IN Translated(pre, h, h.send, em)

translateSignal(s, signal, data, handler, format, fault, ub, t) ==
    CASE handler = "state" ->
            translateSignalString(s, signal, data, format, fault, ub, t)
      [] handler = "boolean" ->
            translateSignalBool(s, signal, data, format, fault, ub, t)
      [] OTHER ->
            translateSignalFloat(s, signal, data, handler, format, fault,
                                 ub, t)

(***************************************************************************)
(* Message definitions (canutil): lookup by bus and id, registration in a  *)
(* bounded table.  0 is the null definition.                               *)
(***************************************************************************)
RECURSIVE lookupMessageFrom(_, _, _, _)
lookupMessageFrom(bus, id, defs, i) ==
    IF i > Len(defs) THEN 0
    ELSE IF defs[i].bus = bus /\ defs[i].id = id THEN i
    ELSE lookupMessageFrom(bus, id, defs, i + 1)

lookupMessageDefinition(bus, id, defs) == lookupMessageFrom(bus, id, defs, 1)

MessageDefinition(bus, id, interval, force) ==
    [bus |-> bus, id |-> id, lastValue |-> ZeroData,
     frequencyClock |-> [interval |-> interval, lastTick |-> 0],
     forceSendChanged |-> force]

registerMessageDefinition(bus, id, defs) ==
    IF Len(defs) < MaxMessageCount
    THEN [ok |-> TRUE,
          messages |-> Append(defs, MessageDefinition(bus, id, 0, FALSE))]
    ELSE [ok |-> FALSE, messages |-> defs]

(***************************************************************************)
(* passthroughMessage.  message is the definition found before a           *)
(* registration, so a definition registered by this call is not updated.   *)
(***************************************************************************)
\* Variants of the send decision with a slip: the first sighting is not
\* sent; a failed registration is ignored; forceSendChanged is ignored.
passthroughSend_dropFirst(message, registered, tick, changed, force) ==
    IF message = 0 THEN FALSE ELSE tick \/ (changed /\ force)

passthroughSend_ignoreFull(message, registered, tick, changed, force) ==
    IF message = 0 THEN TRUE ELSE tick \/ (changed /\ force)

passthroughSend_noForce(message, registered, tick, changed, force) ==
    IF message = 0 THEN registered ELSE tick

\* The send decision of passthroughMessage (lines 315-327).
passthroughSend(message, registered, tick, changed, force) ==
    IF message = 0 THEN registered ELSE tick \/ (changed /\ force)

passthroughMessage(bus, id, data, defs, format, fault, ub, t) ==
    LET message == lookupMessageDefinition(bus, id, defs)
        reg == registerMessageDefinition(bus, id, defs)
        st == IF message = 0 THEN [tick |-> FALSE]
              ELSE shouldTick(defs[message].frequencyClock, t)
        send == IF message = 0
                THEN passthroughSend(message, reg.ok, FALSE, FALSE, FALSE)
                ELSE passthroughSend(message, FALSE, st.tick,
                                     data # defs[message].lastValue,
                                     defs[message].forceSendChanged)
        defs1 == IF message = 0 THEN reg.messages
                 ELSE [defs EXCEPT ![message].frequencyClock = st.clock]
        em == IF send
              THEN (IF format = "PROTO"
                    THEN passthroughMessageProtobuf(bus, id, data, fault)
                    ELSE passthroughMessageJson(bus, id, data, fault, ub))
              ELSE NoEmission
    IN [message |-> message, tick |-> st.tick, send |-> send, em |-> em,
        messages |-> IF message # 0 /\ ~em.crash
                     THEN [defs1 EXCEPT ![message].lastValue = data]
                     ELSE defs1]

(***************************************************************************)
(* The state machine.                                                      *)
(*   now           system time in ms                                       *)
(*   outputFormat  the pipeline's output format                            *)
(*   signals       the CanSignal structs                                   *)
(*   messages      the CanMessageDefinition table                          *)
(*   sink          what the most recent call handed to the pipeline sink   *)
(*   everSent      the signals of which a message was ever handed over     *)
(*   everPassed    the signals of which a value ever passed the gate       *)
(*   crashed       the firmware ran into a fatal fault                     *)
(*   last          the most recent call: its arguments and what it saw     *)
(***************************************************************************)
Intervals == {0, Interval}

CanSignal(interval, force, same) ==
    [received |-> FALSE, lastValue |-> 0,
     frequencyClock |-> [interval |-> interval, lastTick |-> 0],
     forceSendChanged |-> force, sendSame |-> same]

SignalConfigs == {CanSignal(i, f, m) : i \in Intervals, f \in BOOLEAN,
                                       m \in BOOLEAN}
\* The predefined message is throttled; the definitions registered at run
\* time are not.
MessageConfigs == {<<MessageDefinition(1, 1, Interval, f)>> : f \in BOOLEAN}

InitCommon ==
    /\ now = 0
    /\ outputFormat = "JSON"
    /\ sink = <<>>
    /\ everSent = {}
    /\ everPassed = {}
    /\ crashed = FALSE
    /\ last = [op |-> "none"]

Init ==
    /\ InitCommon
    /\ signals \in [Signals -> SignalConfigs]
    /\ messages \in MessageConfigs

\* The failures that can be injected into an emission in the given format;
\* none is injected into a call that emits nothing.
Environment(format, fault, ub) ==
    /\ format = "PROTO" => fault \in {"none", "encode"}
    /\ format = "JSON" => fault \in {"none", "root", "print"}
    /\ fault \in {"none", "encode"} => ub = "drop"
    /\ fault = "root" => ub \in {"drop", "crash"}

Injected(attempted, fault) == ~attempted => fault = "none"

\* What the handler returned: a float, a bool or a string.
Returned(handler, output) ==
    CASE handler = "state" -> [string |-> output]
      [] handler = "boolean" -> [bool |-> output]
      [] OTHER -> [output |-> output]

TranslateSignal(s, data, handler, fault, ub) ==
    /\ ~crashed
    /\ Environment(outputFormat, fault, ub)
    /\ \E r \in {translateSignal(s, signals[s], data, handler, outputFormat,
                                 fault, ub, now)} :
          /\ Injected(r.attempted, fault)
          /\ signals' = [signals EXCEPT ![s] = r.signal]
          /\ sink' = r.em.out
          /\ everSent' = IF r.em.out # <<>> THEN everSent \cup {s}
                         ELSE everSent
          /\ everPassed' = IF r.pre.send THEN everPassed \cup {s}
                           ELSE everPassed
          /\ crashed' = r.em.crash
          /\ last' = [op |-> "translateSignal", signal |-> s,
                      handler |-> handler, data |-> data, fault |-> fault,
                      received |-> signals[s].received,
                      changed |-> (r.pre.value # signals[s].lastValue),
                      tick |-> r.pre.tick, value |-> r.pre.value,
                      gate |-> r.pre.send, send |-> r.send,
                      returned |-> ~r.em.crash]
                     @@ Returned(handler, r.output)
    /\ UNCHANGED <<now, outputFormat, messages>>

\* preTranslate called on its own, with the flag send points to set or
\* clear.  The value passes the gate when the call leaves a set flag set.
PreTranslate(s, data, send) ==
    /\ ~crashed
    /\ \E r \in {preTranslate(s, signals[s], data, send, now)} :
          /\ signals' = [signals EXCEPT ![s] = r.signal]
          /\ everPassed' = IF preTranslate(s, signals[s], data, TRUE,
                                           now).send
                           THEN everPassed \cup {s}
                           ELSE everPassed
          /\ last' = [op |-> "preTranslate", signal |-> s, data |-> data,
                      value |-> r.value, send |-> r.send]
    /\ sink' = <<>>
    /\ UNCHANGED <<now, outputFormat, messages, everSent, crashed>>

\* postTranslate called on its own.
PostTranslate(s, value) ==
    /\ ~crashed
    /\ signals' = [signals EXCEPT ![s] = postTranslate(signals[s], value)]
    /\ sink' = <<>>
    /\ last' = [op |-> "postTranslate", signal |-> s, value |-> value]
    /\ UNCHANGED <<now, outputFormat, messages, everSent, everPassed,
                   crashed>>

PassthroughMessage(bus, id, data, fault, ub) ==
    /\ ~crashed
    /\ Environment(outputFormat, fault, ub)
    /\ \E r \in {passthroughMessage(bus, id, data, messages, outputFormat,
                                    fault, ub, now)} :
          /\ Injected(r.send, fault)
          /\ messages' = r.messages
          /\ sink' = r.em.out
          /\ crashed' = r.em.crash
          /\ last' = [op |-> "passthroughMessage", bus |-> bus, id |-> id,
                      data |-> data, fault |-> fault,
                      message |-> r.message,
                      full |-> (Len(messages) >= MaxMessageCount),
                      changed |-> (r.message # 0
                                   /\ data # messages[r.message].lastValue),
                      tick |-> r.tick,
                      returned |-> ~r.em.crash]
    /\ UNCHANGED <<now, outputFormat, signals, everSent, everPassed>>

\* The system clock advances.
Tick ==
    /\ ~crashed
    /\ now < MaxTime
    /\ now' = now + 1
    /\ UNCHANGED <<outputFormat, signals, messages, sink, everSent,
                   everPassed, crashed, last>>

\* The pipeline's owner switches the output format.
SetOutputFormat(f) ==
    /\ ~crashed
    /\ f # outputFormat
    /\ outputFormat' = f
    /\ UNCHANGED <<now, signals, messages, sink, everSent, everPassed, crashed,
                   last>>

Translate ==
    \E s \in DOMAIN signals, data \in Frames, handler \in Handlers,
       fault \in Faults, ub \in UBOutcomes :
       TranslateSignal(s, data, handler, fault, ub)

\* The values handed to postTranslate: what the frames decode to.
Samples(s) == {decodeSignal(s, data) : data \in Frames}

PreTranslateCall ==
    \E s \in DOMAIN signals, data \in Frames, send \in BOOLEAN :
       PreTranslate(s, data, send)

PostTranslateCall ==
    \E s \in DOMAIN signals : \E value \in Samples(s) :
       PostTranslate(s, value)

Passthrough ==
    \E target \in Targets, data \in Payloads, fault \in Faults,
       ub \in UBOutcomes :
       PassthroughMessage(target[1], target[2], data, fault, ub)

SwitchFormat == \E f \in Formats : SetOutputFormat(f)

Next ==
    \/ Translate
    \/ PreTranslateCall
    \/ PostTranslateCall
    \/ Passthrough
    \/ Tick
    \/ SwitchFormat

Spec == Init /\ [][Next]_vars

\* The signal pipeline alone: one signal in every configuration.
InitTranslate ==
    /\ InitCommon
    /\ signals \in [1..1 -> SignalConfigs]
    /\ messages = <<>>

NextTranslate ==
    \/ Translate
    \/ PreTranslateCall
    \/ PostTranslateCall
    \/ Tick
    \/ SwitchFormat

SpecTranslate == InitTranslate /\ [][NextTranslate]_vars

\* The passthrough path alone: one predefined message in every
\* configuration.
InitPassthrough ==
    /\ InitCommon
    /\ signals = <<>>
    /\ messages \in MessageConfigs

NextPassthrough == Passthrough \/ Tick \/ SwitchFormat

SpecPassthrough == InitPassthrough /\ [][NextPassthrough]_vars

\* The signal pipeline with a sibling signal and a message table: signal 1
\* is throttled and forced on change, signal 2 is not throttled.  What a
\* call writes to the signals does not depend on the serialization, which
\* is taken not to fail here.
InitSiblings ==
    /\ InitCommon
    /\ signals = [s \in 1..2 |-> CanSignal(IF s = 1 THEN Interval ELSE 0,
                                           s = 1, s # 1)]
    /\ messages = <<MessageDefinition(1, 1, Interval, TRUE)>>

\* translateSignal calls whose serialization does not fail.
TranslateSound ==
    \E s \in DOMAIN signals, data \in Frames, handler \in Handlers :
       TranslateSignal(s, data, handler, "none", "drop")

NextSiblings ==
    \/ TranslateSound
    \/ PreTranslateCall
    \/ PostTranslateCall
    \/ Tick

SpecSiblings == InitSiblings /\ [][NextSiblings]_vars

(***************************************************************************)
(* The emitters alone: the senders called directly, as the firmware's      *)
(* signal handlers and command handlers call them.                         *)
(***************************************************************************)
Names == {genericName(s) : s \in Signals}
Numbers == {0, 13}
Strings == {"low", "high"}

\* The VehicleMessage structs handed to sendMessage.
VehicleMessages ==
    {NumericalMessage(n, v) : n \in Names, v \in Numbers}
    \cup {BooleanMessage(n, v) : n \in Names, v \in BOOLEAN}
    \cup {StringMessage(n, v) : n \in Names, v \in Strings}
    \cup {RawMessage(1, 1, d) : d \in Payloads}

\* The JSON objects handed to sendJSON.
JsonRoots ==
    {NullJson}
    \cup {cJSON_AddItemToObject(cJSON_CreateObject("none"), "name",
                                cJSON_CreateString(n)) : n \in Names}

Unrecognized(message) == message.type \notin {"NUM", "BOOL", "STRING"}

\* What an emitter call leaves behind.
Emitted(em, record) ==
    /\ sink' = em.out
    /\ crashed' = em.crash
    /\ last' = record @@ [format |-> outputFormat, returned |-> ~em.crash]
    /\ UNCHANGED <<now, outputFormat, signals, messages, everSent,
                   everPassed>>

SendMessage(message, fault, ub) ==
    /\ ~crashed
    /\ IF outputFormat = "JSON" /\ Unrecognized(message)
       THEN fault = "none"
       ELSE Environment(outputFormat, fault, ub)
    /\ Emitted(sendMessage(message, outputFormat, fault, ub),
               [op |-> "sendMessage", message |-> message, fault |-> fault])

SendJSON(root, fault, ub) ==
    /\ ~crashed
    /\ fault \in {"none", "print"}
    /\ Injected(~root.null, fault)
    /\ fault = "none" => ub = "drop"
    /\ Emitted(sendJSON(root, fault, ub),
               [op |-> "sendJSON", root |-> root, fault |-> fault])

SendNumericalMessage(name, value, fault, ub) ==
    /\ ~crashed
    /\ Environment(outputFormat, fault, ub)
    /\ Emitted(sendNumericalMessage(name, value, outputFormat, fault, ub),
               [op |-> "sendNumericalMessage", fault |-> fault,
                message |-> NumericalMessage(name, value)])

SendBooleanMessage(name, value, fault, ub) ==
    /\ ~crashed
    /\ Environment(outputFormat, fault, ub)
    /\ Emitted(sendBooleanMessage(name, value, outputFormat, fault, ub),
               [op |-> "sendBooleanMessage", fault |-> fault,
                message |-> BooleanMessage(name, value)])

SendStringMessage(name, value, fault, ub) ==
    /\ ~crashed
    /\ Environment(outputFormat, fault, ub)
    /\ Emitted(sendStringMessage(name, value, outputFormat, fault, ub),
               [op |-> "sendStringMessage", fault |-> fault,
                message |-> StringMessage(name, value)])

PassthroughMessageProtobuf(bus, id, data, fault) ==
    /\ ~crashed
    /\ fault \in {"none", "encode"}
    /\ Emitted(passthroughMessageProtobuf(bus, id, data, fault),
               [op |-> "passthroughMessageProtobuf", bus |-> bus, id |-> id,
                data |-> data, fault |-> fault,
                message |-> RawMessage(bus, id, data)])

\* kind selects sendEventedFloatMessage, sendEventedBooleanMessage or
\* sendEventedStringMessage.
SendEventedMessage(kind, name, value, event, fault, ub) ==
    /\ ~crashed
    /\ Environment(outputFormat, fault, ub)
    /\ Injected(outputFormat = "JSON", fault)
    /\ Emitted(CASE kind = "float" ->
                      sendEventedFloatMessage(name, value, event,
                                              outputFormat, fault, ub)
                 [] kind = "boolean" ->
                      sendEventedBooleanMessage(name, value, event,
                                                outputFormat, fault, ub)
                 [] OTHER ->
                      sendEventedStringMessage(name, value, event,
                                               outputFormat, fault, ub),
               [op |-> "sendEventedMessage", kind |-> kind, name |-> name,
                value |-> value, fault |-> fault]
               @@ (CASE kind = "float" -> [float |-> event]
                     [] kind = "boolean" -> [bool |-> event]
                     [] OTHER -> [string |-> event]))

EmitMessage ==
    \E message \in VehicleMessages, fault \in Faults, ub \in UBOutcomes :
       SendMessage(message, fault, ub)

EmitJSON ==
    \E root \in JsonRoots, fault \in Faults, ub \in UBOutcomes :
       SendJSON(root, fault, ub)

EmitNumerical ==
    \E name \in Names, value \in Numbers, fault \in Faults,
       ub \in UBOutcomes : SendNumericalMessage(name, value, fault, ub)

EmitBoolean ==
    \E name \in Names, value \in BOOLEAN, fault \in Faults,
       ub \in UBOutcomes : SendBooleanMessage(name, value, fault, ub)

EmitString ==
    \E name \in Names, value \in Strings, fault \in Faults,
       ub \in UBOutcomes : SendStringMessage(name, value, fault, ub)

EmitRaw ==
    \E target \in Targets, data \in Payloads, fault \in Faults :
       PassthroughMessageProtobuf(target[1], target[2], data, fault)

EmitEvented ==
    \E name \in Names, value \in Strings, fault \in Faults,
       ub \in UBOutcomes :
       \/ \E event \in Numbers :
             SendEventedMessage("float", name, value, event, fault, ub)
       \/ \E event \in BOOLEAN :
             SendEventedMessage("boolean", name, value, event, fault, ub)
       \/ \E event \in Strings :
             SendEventedMessage("string", name, value, event, fault, ub)

InitEmit ==
    /\ InitCommon
    /\ signals = <<>>
    /\ messages = <<>>

NextEmit ==
    \/ EmitMessage
    \/ EmitJSON
    \/ EmitNumerical
    \/ EmitBoolean
    \/ EmitString
    \/ EmitRaw
    \/ EmitEvented
    \/ SwitchFormat

SpecEmit == InitEmit /\ [][NextEmit]_vars

(***************************************************************************)
(* Vocabulary of the properties.                                           *)
(***************************************************************************)
Translated1 == last.op = "translateSignal"
Passed == last.op = "passthroughMessage"

\* The signal the last translateSignal call was about.
Subject == signals[last.signal]

\* The rate/change gate as the specification states it, over what the call
\* found: tick due or forced change, and first value, sendSame or change.
GateOpen ==
    /\ last.tick \/ (Subject.forceSendChanged /\ last.changed)
    /\ ~last.received \/ Subject.sendSame \/ last.changed

\* The wire forms of the messages, written out.
WireNumeric(format, name, value) ==
    IF format = "JSON"
    THEN [encoding |-> "JSON",
          text |-> "{\"name\":\"" \o name \o "\",\"value\":"
                   \o ToString(value) \o "}\r\n"]
    ELSE [encoding |-> "PROTO",
          fields |-> <<[field |-> "type", value |-> "NUM"],
                       [field |-> "numerical_message.name", value |-> name],
                       [field |-> "numerical_message.value",
                        value |-> ToString(value)]>>]

WireRaw(format, bus, id, data) ==
    IF format = "JSON"
    THEN [encoding |-> "JSON",
          text |-> "{\"bus\":" \o ToString(bus) \o ",\"id\":" \o ToString(id)
                   \o ",\"data\":\"0x" \o HexBytes(data, 1) \o "\"}\r\n"]
    ELSE [encoding |-> "PROTO",
          fields |-> <<[field |-> "type", value |-> "RAW"],
                       [field |-> "raw_message.message_id",
                        value |-> ToString(id)],
                       [field |-> "raw_message.bus", value |-> ToString(bus)],
                       [field |-> "raw_message.data",
                        value |-> HexBytes(data, 1)]>>]

\* The sink was handed exactly the message, in one of the wire formats.
NumericHanded ==
    \E f \in Formats :
       sink = <<WireNumeric(f, genericName(last.signal), last.value)>>

RawHanded ==
    \E f \in Formats : sink = <<WireRaw(f, last.bus, last.id, last.data)>>

\* A step that is a call of translateSignal or passthroughMessage.
CallStep == now' = now /\ outputFormat' = outputFormat

\* The definitions of the pair of the last passthroughMessage call.
DefinitionsOf(bus, id, defs) ==
    {i \in 1..Len(defs) : defs[i].bus = bus /\ defs[i].id = id}

(***************************************************************************)
(* C1: for a signal whose received flag is false, preTranslate leaves      *)
(* send = true for any frame, whether the tick is due or not and whatever  *)
(* forceSendChanged and sendSame are.  The code tests received only after  *)
(* the tick / forced-change test has passed.                               *)
(***************************************************************************)
C1_FirstDecodeAlwaysSends ==
    (Translated1 /\ ~last.received) => last.gate

(***************************************************************************)
(* C2: translateSignal with the passthrough handler hands a numeric        *)
(* message to the sink if and only if the gate is open, and nothing        *)
(* otherwise.  As stated, for calls that return, it fails when the         *)
(* serialization fails.                                                    *)
(***************************************************************************)
C2_Original ==
    (Translated1 /\ last.returned /\ last.handler = "passthrough")
        => IF GateOpen THEN NumericHanded ELSE sink = <<>>

\* C2 as amended: the numeric message is handed to the sink if and only if
\* the gate is open and the serialization does not fail; with the gate
\* closed nothing is handed to the sink.
C2_GateDecidesEmission ==
    (Translated1 /\ last.handler = "passthrough")
        => /\ NumericHanded <=> (GateOpen /\ last.fault = "none")
           /\ ~GateOpen => sink = <<>>

C2_Witness ==
    /\ Translated1 /\ last.handler = "passthrough"
    /\ last.received /\ last.changed /\ ~last.tick
    /\ Subject.forceSendChanged /\ ~Subject.sendSame
    /\ NumericHanded

(***************************************************************************)
(* C3: after every translateSignal call, with any handler, lastValue is    *)
(* the value decoded from the frame of that call, whether the message was  *)
(* emitted, vetoed by the gate or vetoed by the handler.                   *)
(***************************************************************************)
C3_LastValueIsLatestSample ==
    (Translated1 /\ last.returned)
        => Subject.lastValue = decodeSignal(last.signal, last.data)

C3_Witness ==
    /\ Translated1 /\ last.returned
    /\ ~last.gate /\ last.changed /\ sink = <<>>
    /\ Subject.lastValue = 100

(***************************************************************************)
(* C4: when the gate does not veto, received is true and lastValue is the  *)
(* decoded value after translateSignal returns, also when the handler      *)
(* vetoes the send and nothing is emitted.                                 *)
(***************************************************************************)
C4_EligibleMarksReceived ==
    (Translated1 /\ last.returned /\ GateOpen)
        => Subject.received /\ Subject.lastValue = last.value

C4_Witness ==
    /\ Translated1 /\ last.returned /\ GateOpen
    /\ ~last.received
    /\ last.handler = "state" /\ last.value = 0
    /\ sink = <<>>
    /\ Subject.received

(***************************************************************************)
(* C5: received is true only for a signal of which a message has been      *)
(* handed to the sink.  The gate sets received before the handler runs.    *)
(***************************************************************************)
C5_Original ==
    \A s \in DOMAIN signals : signals[s].received => s \in everSent

\* C5 as amended: received is true only for a signal of which a value has
\* passed the rate/change gate.
C5_ReceivedMeansPassedGate ==
    \A s \in DOMAIN signals : signals[s].received => s \in everPassed

C5_Witness ==
    \E s \in DOMAIN signals :
        signals[s].received /\ s \in everPassed /\ s \notin everSent

(***************************************************************************)
(* C6: for a fresh signal with forceSendChanged and sendSame false the     *)
(* first of two translateSignal calls with the same frame emits one        *)
(* numeric message with the signal's name and the decoded value; the       *)
(* second call, made with no tick elapsed, emits nothing and leaves        *)
(* lastValue at the decoded value.  Stated for calls whose serialization   *)
(* does not fail; the first call emits nothing when its tick is not due.   *)
(***************************************************************************)
FreshCall ==
    /\ CallStep /\ last'.op = "translateSignal" /\ last'.returned
    /\ last'.handler = "passthrough" /\ last'.fault = "none"
    /\ ~signals[last'.signal].forceSendChanged
    /\ ~signals[last'.signal].sendSame

C6_FreshSignalTwoCalls ==
    [][FreshCall =>
         /\ ~signals[last'.signal].received => NumericHanded'
         /\ (/\ last.op = "translateSignal" /\ ~last.received
             /\ last.data = last'.data /\ ~last'.tick)
               => /\ sink' = <<>>
                  /\ signals'[last'.signal].lastValue = last'.value]_vars

(***************************************************************************)
(* C7: a passthroughMessage call for a pair without definition whose       *)
(* registration succeeds hands exactly one raw message with that bus, id   *)
(* and payload to the sink.  As stated it fails when the serialization     *)
(* fails.                                                                  *)
(***************************************************************************)
C7_Original ==
    (Passed /\ last.returned /\ last.message = 0 /\ ~last.full) => RawHanded

\* C7 as amended: the raw message is handed to the sink provided its
\* serialization does not fail; no clock and no change detection is
\* consulted.
C7_FirstSightingSent ==
    (Passed /\ last.message = 0 /\ ~last.full)
        => /\ RawHanded <=> last.fault = "none"
           /\ ~last.tick /\ ~last.changed

C7_Witness ==
    /\ Passed /\ last.message = 0 /\ ~last.full
    /\ last.data # ZeroData
    /\ RawHanded

(***************************************************************************)
(* C8: a passthroughMessage call for an unknown pair with the table full   *)
(* hands nothing to the sink and leaves every definition as it was.        *)
(***************************************************************************)
C8_FullTableDrops ==
    [][(/\ CallStep /\ last'.op = "passthroughMessage"
        /\ DefinitionsOf(last'.bus, last'.id, messages) = {}
        /\ Len(messages) >= MaxMessageCount)
          => /\ sink' = <<>>
             /\ messages' = messages
             /\ ~crashed']_vars

C8_Witness ==
    /\ Passed /\ last.message = 0 /\ last.full
    /\ last.data # ZeroData
    /\ sink = <<>>
    /\ Len(messages) = MaxMessageCount
    /\ DefinitionsOf(last.bus, last.id, messages) = {}

(***************************************************************************)
(* C9: for a pair with a definition, passthroughMessage hands the raw      *)
(* message to the sink if and only if the tick is due or the payload       *)
(* changed with forceSendChanged set.  As stated it fails when the         *)
(* serialization fails.                                                    *)
(***************************************************************************)
PassGateOpen ==
    last.tick \/ (messages[last.message].forceSendChanged /\ last.changed)

C9_Original ==
    (Passed /\ last.returned /\ last.message # 0)
        => (RawHanded <=> PassGateOpen)

\* C9 as amended: the raw message is handed to the sink if and only if the
\* gate is open and the serialization does not fail; with the gate closed
\* nothing is handed to the sink.
C9_KnownMessageGate ==
    (Passed /\ last.message # 0)
        => /\ RawHanded <=> (PassGateOpen /\ last.fault = "none")
           /\ ~PassGateOpen => sink = <<>>

C9_Witness ==
    /\ Passed /\ last.message # 0
    /\ ~last.tick /\ last.changed
    /\ messages[last.message].forceSendChanged
    /\ RawHanded

(***************************************************************************)
(* C10: after every passthroughMessage call, the registering one           *)
(* included, the definition's lastValue is the payload of the call.  The   *)
(* code updates only a definition that existed before the call.  Stated    *)
(* for calls whose serialization does not fail.                            *)
(***************************************************************************)
C10_LastValueIsPayload ==
    (Passed /\ last.returned /\ last.fault = "none")
        => \A i \in DefinitionsOf(last.bus, last.id, messages) :
              messages[i].lastValue = last.data


(***************************************************************************)
(* C11: in the JSON format, sendMessage given a VehicleMessage of a        *)
(* variant it does not recognize (raw) drops it: nothing is handed to the  *)
(* sink.  The default branch of the switch only logs; the call of          *)
(* sendJsonMessage after the switch is made all the same, with name and    *)
(* value uninitialized.                                                    *)
(***************************************************************************)
C11_UnrecognizedDropped ==
    (last.op = "sendMessage" /\ last.format = "JSON"
     /\ Unrecognized(last.message))
        => sink = <<>>

(***************************************************************************)
(* C12: sendJSON given a null root, or a root whose conversion to a string *)
(* fails, hands nothing to the sink and the failure is not fatal.  The     *)
(* code measures and copies the string before it tests it for null.        *)
(***************************************************************************)
C12_FailedConversionDropped ==
    (last.op = "sendJSON" /\ (last.root.null \/ last.fault = "print"))
        => (sink = <<>> /\ ~crashed)

(***************************************************************************)
(* C13: a passthroughMessage call hands at most one message to the sink;   *)
(* when the protobuf encoding fails it hands none, the call returns, and   *)
(* the lastValue of the message's definition is the payload all the same.  *)
(* The definition registered by the call itself keeps its initial          *)
(* lastValue (see C10).                                                    *)
(***************************************************************************)
C13_EncodeFailureKeepsState ==
    /\ Len(sink) <= 1
    /\ (Passed /\ last.fault = "encode")
          => /\ sink = <<>>
             /\ last.returned
             /\ \A i \in DefinitionsOf(last.bus, last.id, messages) :
                   messages[i].lastValue = last.data

\* The same for translateSignal, where it holds: the signal's lastValue is
\* the decoded value after a call whose protobuf encoding failed.
EncodeFailureKeepsSignal ==
    /\ Len(sink) <= 1
    /\ (Translated1 /\ last.fault = "encode")
          => /\ sink = <<>>
             /\ last.returned
             /\ Subject.lastValue = last.value

(***************************************************************************)
(* C14: every message a translateSignal call hands to the sink is encoded  *)
(* in the format outputFormat holds at that moment, protobuf while it is   *)
(* PROTO and JSON while it is JSON, and the call does not write            *)
(* outputFormat.  After a failed conversion to a string sendJSON can hand  *)
(* over bytes that are no JSON encoding (see C12).                         *)
(***************************************************************************)
C14_EncodedInCurrentFormat ==
    [][(last' # last \/ sink' # sink)
          => /\ outputFormat' = outputFormat
             /\ \A i \in 1..Len(sink') : sink'[i].encoding = outputFormat]_vars

\* What holds of the dispatch: a message handed over while the format is
\* PROTO is protobuf-encoded, and one handed over while it is JSON is
\* JSON-encoded or what sendJSON hands over after a failed conversion.
DispatchFollowsFormat ==
    [][(last' # last \/ sink' # sink)
          => /\ outputFormat' = outputFormat
             /\ \A i \in 1..Len(sink') :
                   \/ sink'[i].encoding = outputFormat
                   \/ sink'[i] = Garbage /\ outputFormat = "JSON"
                      /\ last'.fault = "print"]_vars

(***************************************************************************)
(* C15: a call of sendEventedFloatMessage, sendEventedBooleanMessage or    *)
(* sendEventedStringMessage whose serialization does not fail hands one    *)
(* message to the sink, carrying the name, the value and the event, in     *)
(* the format outputFormat holds, JSON or PROTO.  The sendMessage these    *)
(* senders call handles the JSON format only.                              *)
(***************************************************************************)
EventText ==
    CASE last.kind = "float" -> ToString(last.float)
      [] last.kind = "boolean" -> (IF last.bool THEN "true" ELSE "false")
      [] OTHER -> "\"" \o last.string \o "\""

C15_EventedHandedInFormat ==
    (last.op = "sendEventedMessage" /\ last.fault = "none")
        => IF last.format = "JSON"
           THEN sink = <<[encoding |-> "JSON",
                          text |-> "{\"name\":\"" \o last.name
                                   \o "\",\"value\":\"" \o last.value
                                   \o "\",\"event\":" \o EventText
                                   \o "}\r\n"]>>
           ELSE Len(sink) = 1 /\ sink[1].encoding = "PROTO"

\* What holds: in the JSON format the message is handed over as stated,
\* in the PROTO format nothing is.
EventedJsonOnly ==
    (last.op = "sendEventedMessage" /\ last.fault = "none")
        => IF last.format = "JSON"
           THEN sink = <<[encoding |-> "JSON",
                          text |-> "{\"name\":\"" \o last.name
                                   \o "\",\"value\":\"" \o last.value
                                   \o "\",\"event\":" \o EventText
                                   \o "}\r\n"]>>
           ELSE sink = <<>>

(***************************************************************************)
(* C16: translateSignal with ignoreHandler never hands a message to the    *)
(* sink, whatever the signal, the clock and the frame: the handler sets    *)
(* send = false and returns the value unchanged, and lastValue is the      *)
(* decoded value after the call.                                           *)
(***************************************************************************)
C16_IgnoreNeverSends ==
    (Translated1 /\ last.handler = "ignore")
        => /\ sink = <<>>
           /\ ~last.send
           /\ last.output = last.value
           /\ last.returned
           /\ Subject.lastValue = last.value

\* An ignored sample that passed the gate and changed lastValue.
C16_Witness ==
    /\ Translated1 /\ last.handler = "ignore"
    /\ last.gate /\ last.changed
    /\ Subject.lastValue = last.value

(***************************************************************************)
(* C17: in translateSignal with stateHandler, a decoded value that matches *)
(* no state of the signal makes the handler set send = false and return    *)
(* null, and nothing is emitted; a value that matches a state makes it     *)
(* return that state's name and leave send as the gate set it, and a       *)
(* string message with that name is emitted if and only if the gate        *)
(* allowed sending.   As stated, for calls that return, it fails when the  *)
(* serialization fails.                                                    *)
(***************************************************************************)
MatchingStates ==
    {i \in 1..Len(states(last.signal)) :
        states(last.signal)[i].value = last.value}

WireString(format, name, value) ==
    IF format = "JSON"
    THEN [encoding |-> "JSON",
          text |-> "{\"name\":\"" \o name \o "\",\"value\":\"" \o value
                   \o "\"}\r\n"]
    ELSE [encoding |-> "PROTO",
          fields |-> <<[field |-> "type", value |-> "STRING"],
                       [field |-> "string_message.name", value |-> name],
                       [field |-> "string_message.value", value |-> value]>>]

\* The sink was handed exactly the string message of the handler's output.
StringHanded ==
    \E f \in Formats :
       sink = <<WireString(f, genericName(last.signal), last.string.str)>>

\* What the handler returned is as claimed.
StateHandled ==
    IF MatchingStates = {}
    THEN ~last.send /\ last.string.null
    ELSE /\ last.send = last.gate
         /\ ~last.string.null
         /\ \E i \in MatchingStates :
               last.string.str = states(last.signal)[i].name

C17_Original ==
    (Translated1 /\ last.returned /\ last.handler = "state")
        => /\ StateHandled
           /\ IF MatchingStates # {} /\ last.gate THEN StringHanded
              ELSE sink = <<>>

\* C17 as amended: with a matching value the string message is emitted if
\* and only if the gate allowed sending and the serialization does not
\* fail; with no match, or with the gate closed, nothing is emitted.
C17_StateDecidesEmission ==
    (Translated1 /\ last.handler = "state")
        => /\ StateHandled
           /\ StringHanded <=> (MatchingStates # {} /\ last.gate
                                /\ last.fault = "none")
           /\ (MatchingStates = {} \/ ~last.gate) => sink = <<>>

\* A matching value that passed the gate and was emitted, after an
\* unmatched one was dropped.
C17_Witness ==
    /\ Translated1 /\ last.handler = "state"
    /\ MatchingStates # {} /\ last.gate /\ last.received
    /\ StringHanded

(***************************************************************************)
(* C18: a translateSignal call for signal s, with any built-in handler,    *)
(* changes only s.received, s.lastValue and s.frequencyClock: every        *)
(* sibling signal, the configuration of s (forceSendChanged, sendSame, the *)
(* clock's interval) and every message definition are as before the call.  *)
(* The decode parameters and the state table are constants of the model,   *)
(* and decodeSignal is an operator over the signal and the frame.          *)
(***************************************************************************)
C18_FrameOfTranslateSignal ==
    [][last'.op = "translateSignal"
          => /\ \A t \in DOMAIN signals :
                   t # last'.signal => signals'[t] = signals[t]
             /\ signals'[last'.signal].forceSendChanged
                   = signals[last'.signal].forceSendChanged
             /\ signals'[last'.signal].sendSame
                   = signals[last'.signal].sendSame
             /\ signals'[last'.signal].frequencyClock.interval
                   = signals[last'.signal].frequencyClock.interval
             /\ messages' = messages]_vars

\* A call for signal 2 has changed its received flag and lastValue while
\* signal 1 holds another received sample.
C18_Witness ==
    /\ Translated1 /\ last.signal = 2 /\ last.changed /\ last.gate
    /\ signals[2].received /\ signals[2].lastValue = last.value
    /\ signals[1].received /\ signals[1].lastValue # 0
    /\ signals[1].frequencyClock.lastTick # 0
    /\ Len(messages) > 0

(***************************************************************************)
(* C19: for a signal with received = true and sendSame = false, a          *)
(* translateSignal call whose decoded value equals lastValue emits         *)
(* nothing, whether or not the tick is due and whatever forceSendChanged   *)
(* is, also when that value was never emitted; and a tick that was due is  *)
(* consumed by the call: the clock has fired at the time of the call.      *)
(***************************************************************************)
C19_RepeatedValueVetoed ==
    [][(CallStep /\ last'.op = "translateSignal" /\ last'.received
        /\ ~signals[last'.signal].sendSame /\ ~last'.changed)
          => /\ sink' = <<>>
             /\ ~last'.gate
             /\ last'.returned
             /\ (last'.tick
                 /\ signals[last'.signal].frequencyClock.interval > 0)
                   => signals'[last'.signal].frequencyClock.lastTick = now]_vars

\* A repeated value vetoed on a due tick, of a signal none of whose values
\* was ever handed to the sink; the tick is gone.
C19_Witness ==
    /\ Translated1 /\ last.handler = "passthrough"
    /\ last.received /\ ~last.changed /\ last.tick
    /\ ~Subject.sendSame /\ Subject.frequencyClock.interval > 0
    /\ last.signal \notin everSent
    /\ last.value # 0
    /\ sink = <<>>
    /\ Subject.frequencyClock.lastTick = now

(***************************************************************************)
(* C20: every VehicleMessage built by sendNumericalMessage,                *)
(* sendBooleanMessage, sendStringMessage and passthroughMessageProtobuf    *)
(* has has_type true, the presence flag of exactly the variant of its type *)
(* true, the presence flags of that variant's leaves (name and value, or   *)
(* message_id, bus and data) true, and the flags of the other variants     *)
(* and of their leaves false.                                              *)
(***************************************************************************)
BuiltType ==
    CASE last.op = "sendNumericalMessage" -> "NUM"
      [] last.op = "sendBooleanMessage" -> "BOOL"
      [] last.op = "sendStringMessage" -> "STRING"
      [] last.op = "passthroughMessageProtobuf" -> "RAW"
      [] OTHER -> "NONE"

NamedFlags(sub, present) ==
    sub.has_name = present /\ sub.has_value = present

C20_PresenceFlags ==
    BuiltType # "NONE"
        => /\ last.message.has_type
           /\ last.message.type = BuiltType
           /\ last.message.has_numerical_message = (BuiltType = "NUM")
           /\ last.message.has_boolean_message = (BuiltType = "BOOL")
           /\ last.message.has_string_message = (BuiltType = "STRING")
           /\ last.message.has_raw_message = (BuiltType = "RAW")
           /\ NamedFlags(last.message.numerical_message, BuiltType = "NUM")
           /\ NamedFlags(last.message.boolean_message, BuiltType = "BOOL")
           /\ NamedFlags(last.message.string_message, BuiltType = "STRING")
           /\ last.message.raw_message.has_message_id = (BuiltType = "RAW")
           /\ last.message.raw_message.has_bus = (BuiltType = "RAW")
           /\ last.message.raw_message.has_data = (BuiltType = "RAW")

\* A numerical message built and handed over protobuf-encoded, all the
\* flagged fields and no other on the wire.
C20_Witness ==
    /\ last.op = "sendNumericalMessage" /\ last.format = "PROTO"
    /\ last.message.numerical_message.value # 0
    /\ sink = <<WireNumeric("PROTO", last.message.numerical_message.name,
                            last.message.numerical_message.value)>>

====
